---- MODULE Spec2Model ----
(***************************************************************************)
(* lineic: linear interpolation over a reversible range.                   *)
(*                                                                         *)
(* The model follows src/src/number.rs (Numeric), src/src/range.rs         *)
(* (ReversibleRange), src/src/bucket.rs (InterpolationBucket) and          *)
(* src/src/interpolator.rs (LinearInterpolator).                           *)
(*                                                                         *)
(* The generic parameters S (range type) and T (value type) are built-in   *)
(* integer types, signed or unsigned, of a scaled-down width: a type is a  *)
(* record [signed, bits] and every checked operation fails outside         *)
(* MIN(ty)..MAX(ty), as the std checked_* operations do.                   *)
(*                                                                         *)
(* An f64 is modelled as an exact fraction, NaN or +-infinity.  For        *)
(* operands below 2^4 the IEEE double results of `a / b` and `d * (a / b)` *)
(* truncate to the same integer as the exact fraction (checked by          *)
(* enumeration of all operands), so the integer results of the model are   *)
(* those of the program for the widths used here.  `1.0 - a / b` is the    *)
(* one operation whose rounding shows at these widths; OneMinus models it. *)
(***************************************************************************)
EXTENDS Integers, Sequences, FiniteSets, TLC

\* ---------------------------------------------------------------- bounds
\* Width in bits of the range type S.
SBits == 3
\* Width in bits of the value type T.
TBits == 2
\* Largest number of value-sets handed to a constructor.
MaxSets == 5
\* Largest number of buckets handed to new_from_raw.
MaxRaw == 2

\* const N: usize of InterpolationBucket and LinearInterpolator: the number
\* of components of a value-set.  interpolate computes each component from
\* lo[i], hi[i] and the relative position alone, so the instance with one
\* component stands for every component.
N == 1

\* ------------------------------------------------------ Option<..> values
None == <<>>
Some(x) == <<x>>
unwrap_or(o, d) == IF o = None THEN d ELSE o[1]

\* ----------------------------------------------------------- number.rs
Pow2(n) == 2 ^ n

\* Numeric::MAX
MAX(ty) == IF ty.signed THEN Pow2(ty.bits - 1) - 1 ELSE Pow2(ty.bits) - 1
\* <$t>::MIN
MIN(ty) == IF ty.signed THEN 0 - Pow2(ty.bits - 1) ELSE 0
\* Numeric::ZERO
ZERO == 0
\* Numeric::ONE
ONE == 1

Values(ty) == MIN(ty)..MAX(ty)

checked_sub(ty, a, b) ==
    LET r == a - b IN IF r < MIN(ty) \/ r > MAX(ty) THEN None ELSE Some(r)

checked_add(ty, a, b) ==
    LET r == a + b IN IF r < MIN(ty) \/ r > MAX(ty) THEN None ELSE Some(r)

\* Integer division truncating toward zero, as Rust's `/` on integers and
\* `as` from a float do.
Abs(x) == IF x < 0 THEN 0 - x ELSE x
TruncDiv(a, b) ==
    LET q == Abs(a) \div Abs(b)
    IN IF (a < 0) = (b < 0) THEN q ELSE 0 - q

checked_div(ty, a, b) ==
    IF b = 0 THEN None
    ELSE LET r == TruncDiv(a, b)
         IN IF r < MIN(ty) \/ r > MAX(ty) THEN None ELSE Some(r)

\* Numeric::abs_diff (default method)
abs_diff(ty, a, b) ==
    IF a > b THEN unwrap_or(checked_sub(ty, a, b), ZERO)
    ELSE unwrap_or(checked_sub(ty, b, a), ZERO)

OrdClamp(v, lo, hi) == IF v < lo THEN lo ELSE IF v > hi THEN hi ELSE v

\* clamp were it to leave every value as it is.
clamp_Identity(ty, v, min, max) == v

\* Numeric::clamp (integer impls)
clamp(ty, v, min, max) ==
    IF min < max THEN OrdClamp(v, min, max) ELSE OrdClamp(v, max, min)

\* std::cmp::Ord::clamp(self, min, max) panics when min > max
\* (assert!(min <= max)).
OrdClampPanics(min, max) == min > max

\* NumericUnicode::clamp of examples/custom_types.rs, on the u32 inside:
\* Some(value), or None for a panic of Ord::clamp.
unicode_clamp(v, min, max) ==
    IF min > max
    THEN (IF OrdClampPanics(min, max) THEN None ELSE Some(OrdClamp(v, min, max)))
    ELSE (IF OrdClampPanics(max, min) THEN None ELSE Some(OrdClamp(v, max, min)))

\* from_usize as an unchecked `as` cast would have it.
from_usize_Unchecked(ty, value) == Some(value)

\* Numeric::from_usize (Self::try_from(value).ok())
from_usize(ty, value) == IF value <= MAX(ty) THEN Some(value) ELSE None

\* f64 values: an exact fraction n/d with d > 0, NaN, or an infinity.
NaN == [k |-> "nan", n |-> 0, d |-> 0]
Inf(sign) == [k |-> "inf", n |-> sign, d |-> 0]
Fin(n, d) == IF d < 0 THEN [k |-> "fin", n |-> 0 - n, d |-> 0 - d]
             ELSE [k |-> "fin", n |-> n, d |-> d]
Sign(x) == IF x < 0 THEN 0 - 1 ELSE IF x > 0 THEN 1 ELSE 0

\* Numeric::into_f64 (`self as f64`)
into_f64(a) == Fin(a, 1)

\* f64 `/`
FDiv(x, y) ==
    IF x.k = "nan" \/ y.k = "nan" THEN NaN
    ELSE IF x.k = "inf" THEN (IF y.k = "inf" THEN NaN
                              ELSE Inf(IF y.n < 0 THEN 0 - x.n ELSE x.n))
    ELSE IF y.k = "inf" THEN Fin(0, 1)
    ELSE IF y.n = 0 THEN (IF x.n = 0 THEN NaN ELSE Inf(Sign(x.n)))
    ELSE Fin(x.n * y.d, x.d * y.n)

\* f64 `*`
FMul(x, y) ==
    IF x.k = "nan" \/ y.k = "nan" THEN NaN
    ELSE IF x.k = "inf" \/ y.k = "inf" THEN
        (IF Sign(x.n) * Sign(y.n) = 0 THEN NaN ELSE Inf(Sign(x.n) * Sign(y.n)))
    ELSE Fin(x.n * y.n, x.d * y.d)

\* Numeric::from_f64: in range -> Some(value as Self), else None.  A NaN
\* fails both comparisons.
from_f64(ty, f) ==
    IF f.k # "fin" THEN None
    ELSE IF f.n <= MAX(ty) * f.d /\ f.n >= MIN(ty) * f.d
         THEN Some(TruncDiv(f.n, f.d))
         ELSE None

\* Numeric::scale (default method); the factor is already an f64
scale(ty, self, factor) == from_f64(ty, FMul(into_f64(self), factor))

\* ------------------------------------------------------------ range.rs
\* ReversibleRange::new
ReversibleRange(from, to) == [start |-> from, end |-> to]

\* ReversibleRange::contains
contains(r, value) ==
    (r.start <= value /\ value <= r.end) \/ (r.end <= value /\ value <= r.start)

\* ReversibleRange::is_empty
is_empty(r) == r.start = r.end

\* ReversibleRange::len
len(ty, r) == abs_diff(ty, r.start, r.end)

\* ReversibleRange::is_reversed
is_reversed(r) == r.start > r.end

\* ----------------------------------------------------------- bucket.rs
\* InterpolationBucket::new
InterpolationBucket(r, lo, hi) == [range |-> r, values_lo |-> lo, values_hi |-> hi]

\* The loop body were the adjustment added whatever the order of lo and hi.
Component_AlwaysAdd(tT, lo, hi, rel_percent) ==
    LET diff == abs_diff(tT, lo, hi)
        adj  == unwrap_or(scale(tT, diff, rel_percent), MAX(tT))
    IN unwrap_or(checked_add(tT, lo, adj), MAX(tT))

\* One component of InterpolationBucket::interpolate (the loop body).
Component(tT, lo, hi, rel_percent) ==
    LET diff == abs_diff(tT, lo, hi)
        adj  == unwrap_or(scale(tT, diff, rel_percent), MAX(tT))
    IN IF lo > hi THEN unwrap_or(checked_sub(tT, lo, adj), ZERO)
       ELSE unwrap_or(checked_add(tT, lo, adj), MAX(tT))

\* The relative position were it measured from the end of the range.
RelPercent_FromEnd(tS, b, s) ==
    LET length    == len(tS, b.range)
        value     == clamp(tS, s, b.range.start, b.range.end)
        rel_value == abs_diff(tS, value, b.range.end)
    IN FDiv(into_f64(rel_value), into_f64(length))

\* The relative position of s in the bucket's range, an f64.
RelPercent(tS, b, s) ==
    LET length    == len(tS, b.range)
        value     == clamp(tS, s, b.range.start, b.range.end)
        rel_value == abs_diff(tS, value, b.range.start)
    IN FDiv(into_f64(rel_value), into_f64(length))

\* InterpolationBucket::interpolate
interpolate(tS, tT, b, s) ==
    LET rel_percent == RelPercent(tS, b, s)
    IN [i \in DOMAIN b.values_lo |->
           Component(tT, b.values_lo[i], b.values_hi[i], rel_percent)]

\* const DIFF_FLOOR: f64 = 1e-6, as the fraction 1 / DIFF_FLOOR_INV.
DIFF_FLOOR_INV == 1000000
DIFF_FLOOR == Fin(1, DIFF_FLOOR_INV)

\* f64 `-`, `>`, f64::abs, f64::min and f64::max on finite operands (the
\* operands of reverse_interpolate are distances and their quotients).
FSub(x, y) ==
    IF x.k # "fin" \/ y.k # "fin" THEN NaN
    ELSE Fin(x.n * y.d - y.n * x.d, x.d * y.d)
FGt(x, y) == x.k = "fin" /\ y.k = "fin" /\ x.n * y.d > y.n * x.d
FAbs(x) == IF x.k = "fin" THEN Fin(Abs(x.n), x.d) ELSE x
FMin(x, y) == IF FGt(x, y) THEN y ELSE x
FMax(x, y) == IF FGt(x, y) THEN x ELSE y

\* `1.0 - rel_percent`.  The double of a quotient n/d is not n/d: for the
\* quotients of RoundedUp (all those with d < 2^3) it lies above n/d, and
\* 1.0 - n/d lies so far below (d - n)/d that L * (1.0 - n/d) stays below
\* the whole number L * (d - n) / d for every L < 2^4 (5 * (1.0 - 4/5) is
\* 0.9999999999999998).  Such a result is the fraction just below the
\* exact one; every other result truncates as the exact fraction does.
RoundedUp == {<<4, 5>>, <<5, 6>>}
Tiny == Pow2(20)
OneMinus(p) ==
    IF p.k # "fin" THEN NaN
    ELSE IF \E r \in RoundedUp : p.n * r[2] = r[1] * p.d
         THEN Fin((p.d - p.n) * Tiny - 1, p.d * Tiny)
         ELSE Fin(p.d - p.n, p.d)

\* The loop of reverse_interpolate from component i on, rel_percent being
\* the Option<f64> found so far.  ok = FALSE is a `return None` in the loop.
RECURSIVE ReverseScan(_, _, _, _, _)
ReverseScan(tT, b, input, i, rel_percent) ==
    IF i > Len(input) THEN [ok |-> TRUE, p |-> rel_percent]
    ELSE LET lo      == b.values_lo[i]
             hi      == b.values_hi[i]
             diff    == into_f64(abs_diff(tT, lo, hi))
             diff2   == into_f64(abs_diff(tT, lo, input[i]))
             min     == FMin(diff, diff2)
             max     == FMax(diff, diff2)
             percent == FDiv(min, max)
         IN IF input[i] # clamp(tT, input[i], lo, hi)
                THEN [ok |-> FALSE, p |-> None]
            ELSE IF diff.n = 0 /\ diff2.n = 0
                THEN ReverseScan(tT, b, input, i + 1, rel_percent)
            ELSE IF rel_percent # None
                THEN (IF FGt(FAbs(FSub(rel_percent[1], percent)), DIFF_FLOOR)
                      THEN [ok |-> FALSE, p |-> None]
                      ELSE ReverseScan(tT, b, input, i + 1, rel_percent))
            ELSE ReverseScan(tT, b, input, i + 1, Some(percent))

\* reverse_interpolate were the scaled length always added to the start.
reverse_interpolate_FromStart(tS, tT, b, input) ==
    LET start   == b.range.start
        end     == b.range.end
        length  == abs_diff(tS, end, start)
        scan    == ReverseScan(tT, b, input, 1, None)
        rel_percent == IF start > end THEN OneMinus(scan.p[1]) ELSE scan.p[1]
        scaled  == scale(tS, length, rel_percent)
    IN IF ~scan.ok \/ scan.p = None THEN None
       ELSE IF scaled = None THEN None
       ELSE checked_add(tS, start, scaled[1])

\* InterpolationBucket::reverse_interpolate
reverse_interpolate(tS, tT, b, input) ==
    LET start   == b.range.start
        end     == b.range.end
        length  == abs_diff(tS, end, start)
        scan    == ReverseScan(tT, b, input, 1, None)
        rel_percent == IF start > end THEN OneMinus(scan.p[1]) ELSE scan.p[1]
        scaled  == scale(tS, length, rel_percent)
    IN IF ~scan.ok \/ scan.p = None THEN None
       ELSE IF scaled = None THEN None
       ELSE IF start < end THEN checked_add(tS, start, scaled[1])
       ELSE checked_add(tS, end, scaled[1])

\* ------------------------------------------------------ interpolator.rs
\* The end of a sub-range were the last one not forced to range.end.
SubEnd_NotForced(tS, r, step_by, start, is_last) ==
    IF is_reversed(r) THEN unwrap_or(checked_sub(tS, start, step_by), ZERO)
    ELSE unwrap_or(checked_add(tS, start, step_by), MAX(tS))

\* The end of sub-range i (0-based) in the loop of try_new.
SubEnd(tS, r, step_by, start, is_last) ==
    IF is_last THEN r.end
    ELSE IF is_reversed(r) THEN unwrap_or(checked_sub(tS, start, step_by), ZERO)
    ELSE unwrap_or(checked_add(tS, start, step_by), MAX(tS))

\* The loop of try_new from iteration i (0-based) on, `start` being the
\* loop variable: the buckets pushed by iterations i .. capacity-1.
RECURSIVE Subdivide(_, _, _, _, _, _)
Subdivide(tS, r, value_sets, step_by, i, start) ==
    IF i >= Len(value_sets) - 1 THEN <<>>
    ELSE LET is_last == (i = Len(value_sets) - 2)
             end     == SubEnd(tS, r, step_by, start, is_last)
         IN <<InterpolationBucket(ReversibleRange(start, end),
                                  value_sets[i + 1], value_sets[i + 2])>>
            \o Subdivide(tS, r, value_sets, step_by, i + 1, end)

\* The step were the length divided by the number of value-sets.
StepBy_ByValueSets(tS, r, capacity) ==
    LET c == from_usize(tS, capacity + 1)
    IN IF c = None THEN None
       ELSE checked_div(tS, abs_diff(tS, r.start, r.end), c[1])

\* The step of try_new: len.checked_div(S::from_usize(capacity)?)?
StepBy(tS, r, capacity) ==
    LET c == from_usize(tS, capacity)
    IN IF c = None THEN None
       ELSE checked_div(tS, abs_diff(tS, r.start, r.end), c[1])

\* LinearInterpolator::try_new: Some(buckets) or None
try_new(tS, r, value_sets) ==
    IF Len(value_sets) = 0
    THEN Some(<<InterpolationBucket(r, [i \in 1..N |-> ZERO], [i \in 1..N |-> ZERO])>>)
    ELSE IF Len(value_sets) - 1 = 0
    THEN Some(<<InterpolationBucket(r, value_sets[1], value_sets[1])>>)
    ELSE LET step_by == StepBy(tS, r, Len(value_sets) - 1)
         IN IF step_by = None THEN None
            ELSE Some(Subdivide(tS, r, value_sets, step_by[1], 0, r.start))

\* LinearInterpolator::is_reversed
interp_is_reversed(bs) == Len(bs) > 0 /\ is_reversed(bs[1].range)

\* The binary search of get_bucket on the slice of `length` buckets that
\* starts after `from` buckets; the result is the bucket's index (1-based).
RECURSIVE Search(_, _, _, _, _)
Search(bs, rev, s, from, length) ==
    IF length <= 1 THEN from + 1
    ELSE LET mid        == length \div 2
             mid_bucket == bs[from + mid + 1]
         IN IF contains(mid_bucket.range, s) THEN from + mid + 1
            ELSE IF (~rev /\ s >= mid_bucket.range.start)
                    \/ (rev /\ s <= mid_bucket.range.start)
                 THEN Search(bs, rev, s, from + mid, length - mid)
                 ELSE Search(bs, rev, s, from, mid)

\* get_bucket were the direction of the search taken the wrong way round.
get_bucket_WrongDirection(bs, s) ==
    Search(bs, ~interp_is_reversed(bs), s, 0, Len(bs))

\* LinearInterpolator::get_bucket
get_bucket(bs, s) == Search(bs, interp_is_reversed(bs), s, 0, Len(bs))

\* LinearInterpolator::interpolate
interp_interpolate(tS, tT, bs, s) == interpolate(tS, tT, bs[get_bucket(bs, s)], s)

\* The scan of LinearInterpolator::reverse_interpolate were it to run from
\* the last bucket down to the first.
RECURSIVE ReverseDown(_, _, _, _, _)
ReverseDown(tS, tT, bs, values, i) ==
    IF i < 1 THEN None
    ELSE LET r == reverse_interpolate(tS, tT, bs[i], values)
         IN IF r # None THEN r ELSE ReverseDown(tS, tT, bs, values, i - 1)

interp_reverse_interpolate_LastFirst(tS, tT, bs, values) ==
    ReverseDown(tS, tT, bs, values, Len(bs))

\* The loop of LinearInterpolator::reverse_interpolate from bucket i on.
RECURSIVE ReverseFrom(_, _, _, _, _)
ReverseFrom(tS, tT, bs, values, i) ==
    IF i > Len(bs) THEN None
    ELSE LET r == reverse_interpolate(tS, tT, bs[i], values)
         IN IF r # None THEN r ELSE ReverseFrom(tS, tT, bs, values, i + 1)

\* LinearInterpolator::reverse_interpolate
interp_reverse_interpolate(tS, tT, bs, values) ==
    ReverseFrom(tS, tT, bs, values, 1)

\* ------------------------------------------------------------- the state
VARIABLES
    S,          \* the range type of the instance
    T,          \* the value type of the instance
    kind,       \* "none", "bucket", "interp", "None" (try_new), "panic", or
                \* the method of Numeric or ReversibleRange just called
    range,      \* the range handed to the constructor
    value_sets, \* the value-sets handed to the constructor
    buckets,    \* the buckets of the interpolator (one for a lone bucket)
    query,      \* Option: the value queried
    idx,        \* Option: the index of the bucket get_bucket returned
    result,     \* Option: the vector interpolate returned
    input,      \* Option: the vector handed to reverse_interpolate
    reversed    \* Option: the Option<S> reverse_interpolate returned

vars == <<S, T, kind, range, value_sets, buckets, query, idx, result,
          input, reversed>>

STypes == {[signed |-> b, bits |-> SBits] : b \in BOOLEAN}
TTypes == {[signed |-> b, bits |-> TBits] : b \in BOOLEAN}

Ranges(ty) == {ReversibleRange(a, b) : a \in Values(ty), b \in Values(ty)}
Vectors(vals) == [1..N -> vals]
\* The value-sets of an interpolator are drawn from the trait's constants.
Palette(ty) == {ZERO, MAX(ty)}
ValueSetLists(ty) == UNION {[1..k -> Vectors(Palette(ty))] : k \in 0..MaxSets}

\* Nothing is built yet.  The interpolators are instantiated over an
\* unsigned value type (colours, as in the crate's examples) and over a
\* signed and an unsigned range type.
Init ==
    /\ S \in STypes
    /\ T = [signed |-> FALSE, bits |-> TBits]
    /\ kind = "none"
    /\ range = None
    /\ value_sets = <<>>
    /\ buckets = <<>>
    /\ query = None
    /\ idx = None
    /\ result = None
    /\ input = None
    /\ reversed = None

\* InterpolationBucket::new(range, lo, hi)
BucketNew ==
    /\ kind = "none"
    /\ \E r \in Ranges(S), lo \in Vectors(Values(T)), hi \in Vectors(Values(T)) :
          /\ kind' = "bucket"
          /\ range' = Some(r)
          /\ value_sets' = <<lo, hi>>
          /\ buckets' = <<InterpolationBucket(r, lo, hi)>>
    /\ UNCHANGED <<S, T, query, idx, result, input, reversed>>

\* LinearInterpolator::try_new(range, value_sets)
TryNew ==
    /\ kind = "none"
    /\ \E r \in Ranges(S), vs \in ValueSetLists(T) :
          LET made == try_new(S, r, vs)
          IN /\ kind' = IF made = None THEN "None" ELSE "interp"
             /\ range' = Some(r)
             /\ value_sets' = vs
             /\ buckets' = unwrap_or(made, <<>>)
    /\ UNCHANGED <<S, T, query, idx, result, input, reversed>>

\* LinearInterpolator::new(range, value_sets): try_new(..).expect(..)
New ==
    /\ kind = "none"
    /\ \E r \in Ranges(S), vs \in ValueSetLists(T) :
          LET made == try_new(S, r, vs)
          IN /\ kind' = IF made = None THEN "panic" ELSE "interp"
             /\ range' = Some(r)
             /\ value_sets' = vs
             /\ buckets' = unwrap_or(made, <<>>)
    /\ UNCHANGED <<S, T, query, idx, result, input, reversed>>

\* InterpolationBucket::interpolate(s) on a lone bucket
BucketInterpolate ==
    /\ kind = "bucket"
    /\ query = None
    /\ \E s \in Values(S) :
          /\ query' = Some(s)
          /\ idx' = Some(1)
          /\ result' = Some(interpolate(S, T, buckets[1], s))
    /\ UNCHANGED <<S, T, kind, range, value_sets, buckets, input, reversed>>

\* LinearInterpolator::interpolate(s): get_bucket(s).interpolate(s).  With
\* no bucket the loop of get_bucket is skipped and `&slice[0]` panics.
Interpolate ==
    /\ kind = "interp"
    /\ query = None
    /\ input = None
    /\ \E s \in Values(S) :
          /\ query' = Some(s)
          /\ IF Len(buckets) = 0
             THEN /\ kind' = "panic"
                  /\ idx' = None
                  /\ result' = None
             ELSE /\ kind' = kind
                  /\ idx' = Some(get_bucket(buckets, s))
                  /\ result' = Some(interp_interpolate(S, T, buckets, s))
    /\ UNCHANGED <<S, T, range, value_sets, buckets, input, reversed>>

\* A LinearInterpolator: built by try_new or new, then queried.
Next == TryNew \/ New \/ Interpolate

Spec == Init /\ [][Next]_vars

\* LinearInterpolator::reverse_interpolate(&v), for any vector v
ReverseInterpolate ==
    /\ kind = "interp"
    /\ query = None
    /\ input = None
    /\ \E v \in Vectors(Values(T)) :
          /\ input' = Some(v)
          /\ reversed' = Some(interp_reverse_interpolate(S, T, buckets, v))
    /\ UNCHANGED <<S, T, kind, range, value_sets, buckets, query, idx, result>>

\* A LinearInterpolator: built by try_new or new, then reverse-interpolated.
NextInterpReverse == TryNew \/ New \/ ReverseInterpolate

SpecInterpReverse == Init /\ [][NextInterpReverse]_vars

\* A lone InterpolationBucket, over signed and unsigned range and value
\* types: built by new, then queried.
InitBucket ==
    /\ S \in STypes
    /\ T \in TTypes
    /\ kind = "none"
    /\ range = None
    /\ value_sets = <<>>
    /\ buckets = <<>>
    /\ query = None
    /\ idx = None
    /\ result = None
    /\ input = None
    /\ reversed = None

NextBucket == BucketNew \/ BucketInterpolate

SpecBucket == InitBucket /\ [][NextBucket]_vars

\* The slices handed to new_from_raw: the empty slice, and up to MaxRaw
\* buckets that are contiguous and sorted, as its doc requires of the
\* caller: bucket i runs from points[i] to points[i+1].
Monotone(points) ==
    \/ \A i \in 1..(Len(points) - 1) : points[i] <= points[i + 1]
    \/ \A i \in 1..(Len(points) - 1) : points[i] >= points[i + 1]
RawSlices(tS, tT) ==
    {<<>>} \cup
    UNION {{[i \in 1..k |->
               InterpolationBucket(ReversibleRange(points[i], points[i + 1]),
                                   vs[i], vs[i + 1])] :
              points \in {ps \in [1..(k + 1) -> Values(tS)] : Monotone(ps)},
              vs \in [1..(k + 1) -> Vectors(Palette(tT))]} : k \in 1..MaxRaw}

\* LinearInterpolator::new_from_raw(buckets): the slice is taken as it is
NewFromRaw ==
    /\ kind = "none"
    /\ \E bs \in RawSlices(S, T) :
          /\ kind' = "interp"
          /\ buckets' = bs
    /\ UNCHANGED <<S, T, range, value_sets, query, idx, result, input, reversed>>

\* A LinearInterpolator built by new_from_raw, then queried.
NextRaw == NewFromRaw \/ Interpolate

SpecRaw == Init /\ [][NextRaw]_vars

\* Numeric::abs_diff(a, b) on the built-in integer type S
AbsDiff ==
    /\ kind = "none"
    /\ \E a \in Values(S), b \in Values(S) :
          /\ kind' = "abs_diff"
          /\ input' = Some(<<a, b>>)
          /\ result' = Some(abs_diff(S, a, b))
    /\ UNCHANGED <<S, T, range, value_sets, buckets, query, idx, reversed>>

\* ReversibleRange::new(a, b).len()
RangeLen ==
    /\ kind = "none"
    /\ \E r \in Ranges(S) :
          /\ kind' = "len"
          /\ range' = Some(r)
          /\ input' = Some(<<r.start, r.end>>)
          /\ result' = Some(len(S, r))
    /\ UNCHANGED <<S, T, value_sets, buckets, query, idx, reversed>>

\* Numeric::clamp(v, min, max) of the built-in integer type S
Clamp ==
    /\ kind = "none"
    /\ \E v \in Values(S), min \in Values(S), max \in Values(S) :
          /\ kind' = "clamp"
          /\ input' = Some(<<v, min, max>>)
          /\ result' = Some(clamp(S, v, min, max))
    /\ UNCHANGED <<S, T, range, value_sets, buckets, query, idx, reversed>>

\* NumericUnicode::clamp(v, min, max): the type wraps an unsigned integer
ClampUnicode ==
    /\ kind = "none"
    /\ ~S.signed
    /\ \E v \in Values(S), min \in Values(S), max \in Values(S) :
          LET r == unicode_clamp(v, min, max)
          IN /\ kind' = IF r = None THEN "panic" ELSE "unicode_clamp"
             /\ input' = Some(<<v, min, max>>)
             /\ result' = r
    /\ UNCHANGED <<S, T, range, value_sets, buckets, query, idx, reversed>>

\* The methods of Numeric and ReversibleRange, each called once.
NextNumeric == AbsDiff \/ RangeLen \/ Clamp \/ ClampUnicode

SpecNumeric == Init /\ [][NextNumeric]_vars

\* The types and values of test_interpolation_bucket: u8 colours of three
\* components.  Its range (0.0, 1.0) is taken ten times larger, as the u8
\* range (0, 10): the relative positions are the same doubles (6/10 is
\* 0.6/1.0), and 205 * (q / 10) truncates as the exact fraction for every
\* whole q of 0..10.
U8Bits == 8
U8 == [signed |-> FALSE, bits |-> U8Bits]
RED == <<255, 50, 50>>
GRN == <<50, 255, 50>>
TestRanges == {ReversibleRange(0, 10), ReversibleRange(10, 0)}

InitTest ==
    /\ S = U8
    /\ T = U8
    /\ kind = "none"
    /\ range = None
    /\ value_sets = <<>>
    /\ buckets = <<>>
    /\ query = None
    /\ idx = None
    /\ result = None
    /\ input = None
    /\ reversed = None

\* InterpolationBucket::new(range, lo, hi) as the test calls it: a range
\* and its mirror, between the two colours
BucketNewTest ==
    /\ kind = "none"
    /\ \E r \in TestRanges, lo \in {RED, GRN}, hi \in {RED, GRN} :
          /\ kind' = "bucket"
          /\ range' = Some(r)
          /\ value_sets' = <<lo, hi>>
          /\ buckets' = <<InterpolationBucket(r, lo, hi)>>
    /\ UNCHANGED <<S, T, query, idx, result, input, reversed>>

\* The buckets of the test, queried at any u8.
NextTest == BucketNewTest \/ BucketInterpolate

SpecTest == InitTest /\ [][NextTest]_vars

\* The interpolator of examples/start_here.rs: u8 value-sets of three
\* components over the f64 range 0.0..=10.0, taken as the u8 range 0..=10.
\* The step 10 / 2 is 5 in both types, the relative positions are the same
\* doubles, and 255 * (q / 5) and 255 * (q / 10) truncate as the exact
\* fractions for every whole q.
ExampleValueSets == <<<<0, 255, 0>>, <<255, 255, 0>>, <<255, 0, 0>>>>
ExampleColours == {ExampleValueSets[i] : i \in 1..3}
ExampleLists == UNION {[1..k -> ExampleColours] : k \in 1..3}

\* LinearInterpolator::new(range, value_sets) as the example calls it: the
\* range or its reverse, and one to three of the example's colours
NewExample ==
    /\ kind = "none"
    /\ \E r \in TestRanges, vs \in ExampleLists :
          LET made == try_new(S, r, vs)
          IN /\ kind' = IF made = None THEN "panic" ELSE "interp"
             /\ range' = Some(r)
             /\ value_sets' = vs
             /\ buckets' = unwrap_or(made, <<>>)
    /\ UNCHANGED <<S, T, query, idx, result, input, reversed>>

\* The example's interpolators, queried at any u8.
NextExample == NewExample \/ Interpolate

SpecExample == InitTest /\ [][NextExample]_vars

\* const N: usize, instantiated at 0, 1 and 2 components for the lone
\* buckets that are reverse-interpolated: the loop of reverse_interpolate
\* carries rel_percent from one component to the next.
Dims == 0..2
\* The value vectors of such a bucket: every vector of at most one
\* component, and the vectors of two components over the trait's
\* constants, the first ZERO or MAX and the second ZERO or ONE, so that two
\* components can differ in their span.
BucketVectors(ty, n) ==
    IF n <= 1 THEN [1..n -> Values(ty)]
    ELSE {<<a, b>> : a \in Palette(ty), b \in {ZERO, ONE}}

\* InterpolationBucket::new_const((start, end), lo, hi)
BucketNewConst ==
    /\ kind = "none"
    /\ \E r \in Ranges(S), n \in Dims :
          \E lo \in BucketVectors(T, n), hi \in BucketVectors(T, n) :
             /\ kind' = "bucket"
             /\ range' = Some(r)
             /\ value_sets' = <<lo, hi>>
             /\ buckets' = <<InterpolationBucket(r, lo, hi)>>
    /\ UNCHANGED <<S, T, query, idx, result, input, reversed>>

\* InterpolationBucket::reverse_interpolate(&v) on a lone bucket, for any
\* vector v of the bucket's dimension
BucketReverseInterpolate ==
    /\ kind = "bucket"
    /\ query = None
    /\ input = None
    /\ \E v \in [DOMAIN buckets[1].values_lo -> Values(T)] :
          /\ input' = Some(v)
          /\ reversed' = Some(reverse_interpolate(S, T, buckets[1], v))
    /\ UNCHANGED <<S, T, kind, range, value_sets, buckets, query, idx, result>>

\* bucket.reverse_interpolate(&bucket.interpolate(s)): the reverse of the
\* vector the bucket has just returned
BucketRoundTrip ==
    /\ kind = "bucket"
    /\ result # None
    /\ input = None
    /\ input' = result
    /\ reversed' = Some(reverse_interpolate(S, T, buckets[1], result[1]))
    /\ UNCHANGED <<S, T, kind, range, value_sets, buckets, query, idx, result>>

\* A lone bucket of 0, 1 or 2 components, reverse-interpolated.
NextReverse == BucketNewConst \/ BucketReverseInterpolate

SpecReverse == InitBucket /\ [][NextReverse]_vars

\* A lone bucket of 0, 1 or 2 components, queried, and the result handed
\* back to reverse_interpolate.
NextRoundTrip == BucketNewConst \/ BucketInterpolate \/ BucketRoundTrip

SpecRoundTrip == InitBucket /\ [][NextRoundTrip]_vars

\* ------------------------------------------------------------ the claims
\* Shorthands for the state a claim reads.
Built == kind = "interp"
Queried == query # None
K == Len(value_sets)
TheRange == range[1]
Q == query[1]
Zeros == [i \in 1..N |-> ZERO]

\* C1: a bucket whose range has start # end returns exactly values_lo from
\* interpolate(start) and exactly values_hi from interpolate(end).
C1_BucketEndpointsExact ==
    (kind = "bucket" /\ Queried /\ ~is_empty(buckets[1].range)) =>
        /\ (Q = buckets[1].range.start => result[1] = buckets[1].values_lo)
        /\ (Q = buckets[1].range.end => result[1] = buckets[1].values_hi)

\* C2: an interpolator built from k >= 2 value-sets returns value_sets[i]
\* exactly at the i-th sub-range boundary: value_sets[0] at range.start,
\* value_sets[k-1] at range.end, and value_sets[i] at the boundary shared by
\* bucket i-1 and bucket i.
C2_BoundariesReturnValueSets ==
    (Built /\ Queried /\ K >= 2 /\ ~is_empty(TheRange)) =>
        /\ (Q = TheRange.start => result[1] = value_sets[1])
        /\ (Q = TheRange.end => result[1] = value_sets[K])
        /\ \A i \in 2..(K - 1) :
              Q = buckets[i].range.start => result[1] = value_sets[i]

\* C3: out-of-range queries are clamped: interpolate(q) is
\* interpolate(clamp(q, start, end)), for an interpolator and a lone bucket.
C3_QueryClamped ==
    (kind \in {"interp", "bucket"} /\ Queried) =>
        result[1] = interp_interpolate(S, T, buckets,
                        clamp(S, Q, TheRange.start, TheRange.end))

\* C4: an interpolator built from no value-sets returns the all-ZERO vector
\* for every range and every query.
C4_EmptyReturnsZero ==
    (Built /\ Queried /\ K = 0) => result[1] = Zeros

Max(a, b) == IF a >= b THEN a ELSE b
NBuckets == Len(buckets)

\* C5: try_new produces exactly max(k-1, 1) buckets; bucket 0 starts at
\* range.start, the last bucket ends at range.end, and the end of every
\* bucket is the start of the next.
C5_ContiguousTiling ==
    Built =>
        /\ NBuckets = Max(K - 1, 1)
        /\ buckets[1].range.start = TheRange.start
        /\ buckets[NBuckets].range.end = TheRange.end
        /\ \A i \in 1..(NBuckets - 1) :
              buckets[i].range.end = buckets[i + 1].range.start

\* A range that k-1 does not divide, cut in three or more buckets.
C5_Witness ==
    /\ Built
    /\ NBuckets >= 3
    /\ len(S, TheRange) % (K - 1) # 0
    /\ is_reversed(TheRange)

C7_DirectionUniform ==
    Built =>
        /\ interp_is_reversed(buckets) = is_reversed(TheRange)
        /\ \A i \in 1..NBuckets :
              is_reversed(buckets[i].range) = is_reversed(buckets[1].range)

\* C8: for a query contained in the original range, get_bucket returns a
\* bucket whose range contains the query.
C8_GetBucketContainsQuery ==
    (Built /\ Queried /\ contains(TheRange, Q)) =>
        contains(buckets[idx[1]].range, Q)

\* The buckets of an ascending interpolator all have a positive length.
AscendingProper ==
    /\ Built
    /\ \A i \in 1..NBuckets : buckets[i].range.start < buckets[i].range.end

\* C9 as stated, on ascending interpolators whose buckets all have a
\* positive length: a query equal to the end of bucket i is routed to
\* bucket i+1, range.start to bucket 0 and range.end to the last bucket.
C9_BoundaryToUpperBucket ==
    (AscendingProper /\ Queried) =>
        /\ \A i \in 1..(NBuckets - 1) :
              Q = buckets[i].range.end => idx[1] = i + 1
        /\ (Q = TheRange.start => idx[1] = 1)
        /\ (Q = TheRange.end => idx[1] = NBuckets)

\* C9, amended: for an ascending interpolator a query equal to the end of
\* bucket i is routed to a bucket that contains it and has it as its start
\* or its end; with two buckets that is the upper one; range.start goes to
\* a bucket that starts there and range.end to a bucket that ends there.
C9_BoundaryToAdjacentBucket ==
    (Built /\ Queried /\ ~is_reversed(TheRange)) =>
        LET b == buckets[idx[1]].range
        IN /\ \A i \in 1..(NBuckets - 1) :
                 Q = buckets[i].range.end =>
                     /\ contains(b, Q)
                     /\ (b.start = Q \/ b.end = Q)
                     /\ (NBuckets = 2 => idx[1] = 2)
                     /\ (AscendingProper => idx[1] \in {i, i + 1})
           /\ (Q = TheRange.start => b.start = Q)
           /\ (Q = TheRange.end => b.end = Q)
           /\ (AscendingProper /\ Q = TheRange.start => idx[1] = 1)
           /\ (AscendingProper /\ Q = TheRange.end => idx[1] = NBuckets)

\* A boundary of three proper buckets routed to the lower bucket.
C9_Witness ==
    /\ AscendingProper
    /\ Queried
    /\ NBuckets >= 3
    /\ Q = buckets[2].range.end
    /\ idx[1] = 2

\* C10: construction fails exactly when k >= 2 and k-1 is not representable
\* in S: try_new returns None and new panics then, and both succeed in
\* every other case, k = 0 and k = 1 included.
C10_FailsOnlyOnPrecision ==
    LET unrepresentable == K >= 2 /\ K - 1 > MAX(S)
    IN /\ (kind = "None" => unrepresentable)
       /\ (kind = "panic" => unrepresentable)
       /\ (Built => ~unrepresentable)
       /\ (Built /\ K < 2 => NBuckets = 1)

\* try_new has returned None.
C10_Witness == kind = "None" /\ K - 1 > MAX(S) /\ ~is_empty(TheRange)

\* Shorthands for a lone bucket that has been reverse-interpolated.
TheBucket == buckets[1]
Components == DOMAIN TheBucket.values_lo
\* reverse_interpolate was handed the vector interpolate(Q) had returned.
RoundTripped == kind = "bucket" /\ result # None /\ reversed # None
\* reverse_interpolate was handed a vector of the caller's choice.
Reversed == kind = "bucket" /\ result = None /\ reversed # None
NonFlat == \E i \in Components : TheBucket.values_lo[i] # TheBucket.values_hi[i]
StrictlyInside ==
    \/ TheBucket.range.start < Q /\ Q < TheBucket.range.end
    \/ TheBucket.range.end < Q /\ Q < TheBucket.range.start

C12_ReverseIsSound ==
    Reversed /\ reversed[1] # None /\ ~S.signed /\ ~T.signed
             /\ ~is_empty(TheBucket.range) =>
        /\ contains(TheBucket.range, reversed[1][1])
        /\ interpolate(S, T, TheBucket, reversed[1][1]) = input[1]

\* Component i of the vector handed to reverse_interpolate lies outside
\* [min(lo[i], hi[i]), max(lo[i], hi[i])].
OutOfBounds(i) ==
    LET lo == TheBucket.values_lo[i]
        hi == TheBucket.values_hi[i]
        v  == input[1][i]
    IN (v < lo /\ v < hi) \/ (v > lo /\ v > hi)

\* C13: reverse_interpolate(&v) returns None (the call returns, the state
\* is not a panic) whenever some component of v lies outside the bounds of
\* its lo and hi, and whenever every component of the bucket is flat, a
\* bucket of no component included.
C13_InapplicableIsNone ==
    Reversed =>
        /\ kind # "panic"
        /\ (\E i \in Components : OutOfBounds(i)) => reversed[1] = None
        /\ ~NonFlat => reversed[1] = None

\* A vector whose first component is in bounds and informative and whose
\* second component is out of bounds has been handed to reverse_interpolate.
C13_Witness ==
    /\ Reversed
    /\ Components = 1..2
    /\ ~OutOfBounds(1)
    /\ TheBucket.values_lo[1] # TheBucket.values_hi[1]
    /\ OutOfBounds(2)
    /\ reversed[1] = None

\* What reverse_interpolate of bucket i returns for the vector handed to
\* the interpolator.
BucketReverse(i) == reverse_interpolate(S, T, buckets[i], input[1])

\* C14: LinearInterpolator::reverse_interpolate returns what the
\* lowest-indexed bucket whose reverse_interpolate succeeds returns, and
\* None exactly when reverse_interpolate fails on every bucket.
C14_FirstSuccessInIndexOrder ==
    Built /\ reversed # None =>
        /\ reversed[1] = None <=> \A i \in 1..NBuckets : BucketReverse(i) = None
        /\ reversed[1] # None =>
              \E i \in 1..NBuckets :
                 /\ BucketReverse(i) = reversed[1]
                 /\ \A j \in 1..(i - 1) : BucketReverse(j) = None

\* The first bucket fails, a later one succeeds and a bucket after that one
\* would have returned another value.
C14_Witness ==
    /\ Built /\ reversed # None /\ reversed[1] # None
    /\ BucketReverse(1) = None
    /\ \E i \in 2..NBuckets, j \in 3..NBuckets :
          /\ i < j
          /\ BucketReverse(i) = reversed[1]
          /\ BucketReverse(j) # None
          /\ BucketReverse(j) # reversed[1]

\* The mirror of a bucket: start and end exchanged, lo and hi exchanged.
Mirror(b) ==
    InterpolationBucket(ReversibleRange(b.range.end, b.range.start),
                        b.values_hi, b.values_lo)
\* A lone bucket has been queried.
BucketQueried == kind = "bucket" /\ query # None /\ reversed = None
\* What the mirror of the bucket returns for the same query.
MirrorResult == interpolate(S, T, Mirror(TheBucket), Q)
\* The length of the range and the span of every component are
\* representable: |start - end| <= S::MAX and |lo[i] - hi[i]| <= T::MAX.
Representable ==
    /\ Abs(TheBucket.range.start - TheBucket.range.end) <= MAX(S)
    /\ \A i \in Components :
          Abs(TheBucket.values_lo[i] - TheBucket.values_hi[i]) <= MAX(T)

TestBucket == InterpolationBucket(ReversibleRange(0, 10), RED, GRN)
TestMirror == InterpolationBucket(ReversibleRange(10, 0), GRN, RED)

\* C16 as stated: the mirror queried at 4 (0.4) returns what the bucket
\* returns at 6 (0.6).
C16_MirrorAtReflectedQuery ==
    BucketQueried /\ TheBucket = TestMirror /\ Q = 4 =>
        result[1] = interpolate(S, T, TestBucket, 6)

\* C16, amended: the bucket and its mirror return the same vector
\* [132,173,50] for the same query 6 (0.6); at 4 (0.4) the mirror returns
\* [173,132,50], which is what the bucket returns at 4.
C16_MirrorAtSameQuery ==
    BucketQueried =>
        /\ TheBucket \in {TestBucket, TestMirror} /\ Q = 6
              => result[1] = <<132, 173, 50>>
        /\ TheBucket \in {TestBucket, TestMirror} /\ Q = 4
              => result[1] = <<173, 132, 50>>

\* The mirror of the test has been queried at 4.
C16_Witness == BucketQueried /\ TheBucket = TestMirror /\ Q = 4

\* C17: a bucket whose range has start = end returns values_lo for every
\* query and every lo and hi.
C17_ZeroLengthReturnsLo ==
    BucketQueried /\ is_empty(TheBucket.range) => result[1] = TheBucket.values_lo

\* The operands of the method of Numeric or ReversibleRange just called.
Operands == input[1]
Min(a, b) == IF a < b THEN a ELSE b

\* C18: abs_diff(a, b) and ReversibleRange::new(a, b).len() are |a - b|,
\* never negative, for every pair of values of a built-in integer type.
C18_AbsDiffIsDistance ==
    kind \in {"abs_diff", "len"} =>
        /\ result[1] >= 0
        /\ result[1] = Abs(Operands[1] - Operands[2])

\* C19: clamp(v, min, max) does not panic and returns v clamped into
\* [smaller bound, larger bound], for the built-in integers and for
\* NumericUnicode, also when min > max.
C19_ClampAnyOrder ==
    kind \in {"clamp", "unicode_clamp", "panic"} /\ input # None =>
        /\ kind # "panic"
        /\ result # None
        /\ result[1] = OrdClamp(Operands[1], Min(Operands[2], Operands[3]),
                                Max(Operands[2], Operands[3]))

\* C20: interpolate returns a vector, without a panic, for every
\* interpolator new_from_raw (as new and try_new) can build and every query.
C20_InterpolateAlwaysReturns ==
    Queried /\ kind \in {"interp", "panic"} =>
        /\ kind # "panic"
        /\ result # None
        /\ idx # None
        /\ idx[1] \in 1..NBuckets

\* The interpolator of start_here.rs:30-31 has been built and queried.
ExampleQueried ==
    /\ Built /\ Queried
    /\ TheRange = ReversibleRange(0, 10)
    /\ value_sets = ExampleValueSets

\* C21: the interpolator of the example returns [127,127,0] for the query
\* 5 and [0,255,0] for the query 0.
C21_ExampleAssertions ==
    ExampleQueried =>
        /\ Q = 5 => result[1] = <<127, 127, 0>>
        /\ Q = 0 => result[1] = <<0, 255, 0>>

\* C22: every component of what a bucket returns lies between the same
\* components of values_lo and values_hi, for any range and any query.
C22_ResultWithinSegment ==
    BucketQueried =>
        \A i \in Components :
            /\ Min(TheBucket.values_lo[i], TheBucket.values_hi[i]) <= result[1][i]
            /\ result[1][i] <= Max(TheBucket.values_lo[i], TheBucket.values_hi[i])

====
